---- MODULE Spec2Model ----
(***************************************************************************)
(* Ksgroupbot: the role store and the join handler of main.py, and the     *)
(* store functions of database.py.                                         *)
(*                                                                         *)
(* main.py and database.py are two separate modules (neither imports the   *)
(* other, and each creates its own tables), and every function of          *)
(* database.py opens its own connection and runs one statement on one      *)
(* table.  A behaviour of Spec is a run of main.py or the calls made on    *)
(* one table of database.py: prog says which.                              *)
(*                                                                         *)
(* A Python str is a sequence of one-character strings.                    *)
(***************************************************************************)
EXTENDS Integers, Sequences, FiniteSets, Bags, TLC

VARIABLES
    prog,               \* "main" (main.py is running) or the database.py table in use
    bot_admins,         \* main.py table bot_admins: the set of user_id (primary key)
    group_admins,       \* main.py table group_admins: a bag of rows
    verified_users,     \* main.py table verified_users: a bag of rows
    join,               \* the handle_new_member call in progress, if any
    db_verified_users,  \* database.py table verified_users: rows, oldest added_at first
    groups,             \* database.py table groups: rows, oldest added_at first
    source_channel,     \* database.py table source_channel: the set of channel_id
    last,               \* what the last handler or store call did
    norm,               \* the username being normalized (SpecNorm)
    history,            \* the grants of the earlier join events (SpecJoin)
    conc,               \* two store calls running at the same time (SpecConc)
    dispatch,           \* the dispatch in progress (SpecDispatch)
    startup             \* the call of main() in progress (SpecStartup)

vars == <<prog, bot_admins, group_admins, verified_users, join,
          db_verified_users, groups, source_channel, last, norm, history, conc, dispatch,
          startup>>

main_vars == <<bot_admins, group_admins, verified_users, join>>
db_vars == <<db_verified_users, groups, source_channel>>
other_vars == <<norm, conc, dispatch, startup>>

-----------------------------------------------------------------------------
(* Bounds and input sets *)

\* longest new_chat_members list of one join event
MaxMembers == 2
\* longest username given to the normalization alone
MaxNormLen == 4
\* most groups in the catalog when a dispatch starts
MaxDestinations == 3
\* longest outcome list given to the reach reporter alone
MaxOutcomes == 3
\* most ids in the BOT_ADMINS environment variable at startup
MaxAdminIds == 2

\* the connection and the statement of one store call
DbOutcomes == {"ok", "connfail", "queryfail"}

-----------------------------------------------------------------------------
(* Python str operations *)

Letters == {"F", "f", "o", "a", "b", "x"}
Digits == {"0", "1", "2", "3", "4", "5", "6", "7", "8", "9"}
NonZeroDigits == <<"1", "2", "3", "4", "5", "6", "7", "8", "9">>

\* c.isspace()
IsSpace(c) == c = " "

\* c.isdigit()
IsDigit(c) == c \in Digits

\* c.lower() for one character
LowerChar(c) == IF c = "F" THEN "f" ELSE c

\* s.lower()
Lower(s) == [i \in 1..Len(s) |-> LowerChar(s[i])]

RECURSIVE LStrip(_)
LStrip(s) == IF Len(s) > 0 /\ IsSpace(s[1]) THEN LStrip(Tail(s)) ELSE s

RECURSIVE RStrip(_)
RStrip(s) ==
    IF Len(s) > 0 /\ IsSpace(s[Len(s)]) THEN RStrip(SubSeq(s, 1, Len(s) - 1)) ELSE s

\* s.strip()
Strip(s) == RStrip(LStrip(s))

\* s.startswith(c)
StartsWith(s, c) == Len(s) > 0 /\ s[1] = c

\* s.isalnum(): at least one character, all of them letters or digits
IsAlnum(s) == Len(s) > 0 /\ \A i \in 1..Len(s) : s[i] \in Letters \cup Digits

\* s.isdigit()
IsDigitStr(s) == Len(s) > 0 /\ \A i \in 1..Len(s) : IsDigit(s[i])

\* the strings over alphabet of length at most n
StringsUpTo(alphabet, n) == UNION {[1..k -> alphabet] : k \in 0..n}

-----------------------------------------------------------------------------
(* database.py: verified_users *)

\* the normalization without the startswith check: the '@' is put in front whether
\* or not it is there
NormalizeUsernameAlwaysPrefix(username) == <<"@">> \o Lower(Strip(username))

\* the normalization without the lower-casing
NormalizeUsernameNoLower(username) ==
    LET u == Strip(username)
    IN  IF StartsWith(u, "@") THEN u ELSE <<"@">> \o u

\* username = username.strip().lower(); if not username.startswith('@'): username = f'@{username}'
NormalizeUsername(username) ==
    LET u == Lower(Strip(username))
    IN  IF StartsWith(u, "@") THEN u ELSE <<"@">> \o u

\* a validation that tests the length alone
ValidUsernameLengthOnly(u) == ~(Len(u) < 2)

\* the validation of add_verified_user: len(username) < 2 or not username[1:].isalnum()
ValidUsername(u) == ~(Len(u) < 2 \/ ~IsAlnum(SubSeq(u, 2, Len(u))))

\* the indices of the rows of table t whose column col is key
RowsWith(t, col, key) == {i \in 1..Len(t) : t[i][col] = key}

\* INSERT INTO verified_users (username, added_by) VALUES (..)
\* ON CONFLICT (username) DO UPDATE SET added_by = EXCLUDED.added_by
\* (added_at keeps its value, so the row keeps its place)
UpsertVerified(t, username, added_by) ==
    IF RowsWith(t, "username", username) = {}
    THEN Append(t, [username |-> username, added_by |-> added_by])
    ELSE [i \in 1..Len(t) |->
            IF t[i].username = username THEN [t[i] EXCEPT !.added_by = added_by] ELSE t[i]]

\* DELETE FROM verified_users WHERE username = ..
DeleteVerified(t, username) == SelectSeq(t, LAMBDA r : r.username # username)

\* is_user_verified(username) when the connection and the query succeed
IsUserVerifiedIn(t, username) ==
    IF Len(username) = 0 THEN FALSE
    ELSE RowsWith(t, "username", NormalizeUsername(username)) # {}

\* the rows INSERT .. ON CONFLICT (username) DO UPDATE .. RETURNING username gives back:
\* the row, inserted or updated
UpsertVerifiedReturning(t, username) == <<username>>

\* the rows DELETE .. RETURNING username gives back
DeleteVerifiedReturning(t, username) ==
    [i \in 1..Cardinality(RowsWith(t, "username", username)) |-> username]

\* SELECT username FROM verified_users ORDER BY added_at DESC
SelectVerifiedUsers(t) == [i \in 1..Len(t) |-> t[Len(t) + 1 - i].username]

-----------------------------------------------------------------------------
(* database.py: groups *)

\* clean_chat_id = ''.join(c for c in str(chat_id) if c.isdigit())
CleanChatId(chat_id) == SelectSeq(chat_id, IsDigit)

\* INSERT without the ON CONFLICT clause
InsertGroupNoConflict(t, chat_id, added_by) ==
    Append(t, [chat_id |-> chat_id, added_by |-> added_by])

\* INSERT INTO groups (chat_id, added_by) VALUES (..) ON CONFLICT (chat_id) DO NOTHING
InsertGroup(t, chat_id, added_by) ==
    IF RowsWith(t, "chat_id", chat_id) = {}
    THEN Append(t, [chat_id |-> chat_id, added_by |-> added_by])
    ELSE t

\* the rows INSERT .. ON CONFLICT (chat_id) DO NOTHING RETURNING chat_id gives back:
\* the row when it was inserted, none on a conflict
InsertGroupReturning(t, chat_id) ==
    IF RowsWith(t, "chat_id", chat_id) = {} THEN <<chat_id>> ELSE <<>>

\* a DELETE that empties the table
DeleteGroupAll(t, chat_id) == <<>>

\* DELETE FROM groups WHERE chat_id = ..
DeleteGroup(t, chat_id) == SelectSeq(t, LAMBDA r : r.chat_id # chat_id)

\* the rows DELETE .. RETURNING chat_id gives back
DeleteGroupReturning(t, chat_id) ==
    [i \in 1..Cardinality(RowsWith(t, "chat_id", chat_id)) |-> chat_id]

\* the SELECT with LIMIT 1: the newest group only
SelectNewestGroup(t) == IF Len(t) = 0 THEN <<>> ELSE <<t[Len(t)].chat_id>>

\* SELECT chat_id FROM groups ORDER BY added_at DESC
SelectAllGroups(t) == [i \in 1..Len(t) |-> t[Len(t) + 1 - i].chat_id]

-----------------------------------------------------------------------------
(* database.py: source_channel *)

\* INSERT INTO source_channel (channel_id) VALUES (..)
\* ON CONFLICT (channel_id) DO UPDATE SET channel_id = EXCLUDED.channel_id
\* (channel_id is the primary key: a conflict arises only with the same id)
UpsertSourceChannel(t, channel_id) ==
    IF channel_id \in t THEN (t \ {channel_id}) \cup {channel_id} ELSE t \cup {channel_id}

-----------------------------------------------------------------------------
(* What the last handler or store call did *)

NoLast ==
    [op |-> "none",          \* the handler or the store function
     who |-> 0,              \* the invoking user (commands), the joining member (join)
     user_id |-> 0,          \* the user_id of the row the call is about
     chat_id |-> 0,          \* the chat_id of the row, or the chat of the join event
     arg |-> <<>>,           \* the str argument of a database.py call
     key |-> <<>>,           \* the key the database.py call uses
     db |-> "none",          \* the outcome of the store statement, "none" when not reached
     auth |-> "none",        \* is_bot_admin: "true", "false", "raise", "none"
     existed |-> FALSE,      \* a row with the key was there before the call
     ret |-> FALSE,          \* the return value of the store function
     raised |-> FALSE,       \* the call or handler ended by an exception
     replies |-> <<>>,       \* the replies sent to the invoker
     log |-> <<>>,           \* the platform calls of the join handler, in order
     out |-> <<>>,           \* the rows a reader returned
     is_group_admin |-> FALSE,
     is_verified |-> FALSE]

\* a function whose conn is bound by the connection alone: the finally clause
\* raises when the connection failed
DbConnRaisesUnbound(db) == db = "connfail"

\* every function of database.py sets conn = None before its try block, so the
\* finally clause reads a bound name whether or not the connection was made, and the
\* return of the except clause stands
DbConnRaises(db) == FALSE

-----------------------------------------------------------------------------
(* database.py: inputs *)

Handles ==
    { <<>>, <<"@">>, <<"f">>, <<"F">>, <<"@", "f">>, <<"@", "F">>, <<" ", "f">>,
      <<"f", " ">>, <<"@", " ", "f">>, <<"f", "o">>, <<"@", "@", "f">>, <<"f", "@">> }

Adders == {1, 2}

ChatIdArgs ==
    { <<>>, <<"-">>, <<"1">>, <<"-", "1">>, <<"2">>, <<"x", "2">> }

ChannelIds == { <<"-", "1">>, <<"-", "2">> }

-----------------------------------------------------------------------------
(* database.py: the functions *)

\* add_verified_user(username, added_by)
db_add_verified_user ==
    /\ prog = "verified_users"
    /\ \E username \in Handles :
         LET u == NormalizeUsername(username)
             existed == RowsWith(db_verified_users, "username", u) # {}
         IN  \/ /\ ~ValidUsername(u)
                /\ last' = [NoLast EXCEPT !.op = "db_add_verified_user", !.arg = username,
                                          !.key = u, !.existed = existed, !.ret = FALSE]
                /\ UNCHANGED db_verified_users
             \/ /\ ValidUsername(u)
                /\ \E added_by \in Adders, db \in DbOutcomes :
                     /\ db_verified_users' =
                            IF db = "ok" THEN UpsertVerified(db_verified_users, u, added_by)
                            ELSE db_verified_users
                     /\ last' = [NoLast EXCEPT
                            !.op = "db_add_verified_user", !.arg = username, !.key = u,
                            !.who = added_by, !.db = db, !.raised = DbConnRaises(db),
                            !.existed = existed,
                            !.ret = IF db = "ok"
                                    THEN Len(UpsertVerifiedReturning(db_verified_users, u)) > 0
                                    ELSE FALSE]
    /\ UNCHANGED <<prog, main_vars, groups, source_channel, history, other_vars>>

\* remove_verified_user(username)
db_remove_verified_user ==
    /\ prog = "verified_users"
    /\ \E username \in Handles, db \in DbOutcomes :
         LET u == NormalizeUsername(username)
         IN  /\ db_verified_users' =
                    IF db = "ok" THEN DeleteVerified(db_verified_users, u)
                    ELSE db_verified_users
             /\ last' = [NoLast EXCEPT
                    !.op = "db_remove_verified_user", !.arg = username, !.key = u,
                    !.db = db, !.raised = DbConnRaises(db),
                    !.existed = RowsWith(db_verified_users, "username", u) # {},
                    !.ret = IF db = "ok"
                            THEN Len(DeleteVerifiedReturning(db_verified_users, u)) > 0
                            ELSE FALSE]
    /\ UNCHANGED <<prog, main_vars, groups, source_channel, history, other_vars>>

\* is_user_verified(username)
db_is_user_verified ==
    /\ prog = "verified_users"
    /\ \E username \in Handles :
         \/ /\ Len(username) = 0
            /\ last' = [NoLast EXCEPT !.op = "db_is_user_verified", !.arg = username]
         \/ /\ Len(username) # 0
            /\ \E db \in DbOutcomes :
                 last' = [NoLast EXCEPT
                    !.op = "db_is_user_verified", !.arg = username,
                    !.key = NormalizeUsername(username), !.db = db, !.raised = DbConnRaises(db),
                    !.existed = RowsWith(db_verified_users, "username",
                                         NormalizeUsername(username)) # {},
                    !.ret = IF db = "ok" THEN IsUserVerifiedIn(db_verified_users, username)
                            ELSE FALSE]
    /\ UNCHANGED <<prog, main_vars, db_vars, history, other_vars>>

\* get_verified_users()
db_get_verified_users ==
    /\ prog = "verified_users"
    /\ \E db \in DbOutcomes :
         last' = [NoLast EXCEPT
            !.op = "db_get_verified_users", !.db = db, !.raised = DbConnRaises(db),
            !.out = IF db = "ok" THEN SelectVerifiedUsers(db_verified_users) ELSE <<>>]
    /\ UNCHANGED <<prog, main_vars, db_vars, history, other_vars>>

\* get_all_groups()
get_all_groups ==
    /\ prog = "groups"
    /\ \E db \in DbOutcomes :
         last' = [NoLast EXCEPT
            !.op = "get_all_groups", !.db = db, !.raised = DbConnRaises(db),
            !.out = IF db = "ok" THEN SelectAllGroups(groups) ELSE <<>>]
    /\ UNCHANGED <<prog, main_vars, db_vars, history, other_vars>>

\* add_group(chat_id, added_by)
add_group ==
    /\ prog = "groups"
    /\ \E chat_id \in ChatIdArgs :
         LET clean == CleanChatId(chat_id)
             existed == RowsWith(groups, "chat_id", clean) # {}
         IN  \/ /\ Len(clean) = 0
                /\ last' = [NoLast EXCEPT !.op = "add_group", !.arg = chat_id, !.key = clean]
                /\ UNCHANGED groups
             \/ /\ Len(clean) # 0
                /\ \E added_by \in Adders, db \in DbOutcomes :
                     /\ groups' = IF db = "ok" THEN InsertGroup(groups, clean, added_by)
                                  ELSE groups
                     /\ last' = [NoLast EXCEPT
                            !.op = "add_group", !.arg = chat_id, !.key = clean,
                            !.who = added_by, !.db = db, !.raised = DbConnRaises(db),
                            !.existed = existed,
                            !.ret = IF db = "ok"
                                    THEN Len(InsertGroupReturning(groups, clean)) > 0
                                    ELSE FALSE]
    /\ UNCHANGED <<prog, main_vars, db_verified_users, source_channel, history, other_vars>>

\* remove_group(chat_id)
remove_group ==
    /\ prog = "groups"
    /\ \E chat_id \in ChatIdArgs, db \in DbOutcomes :
         LET clean == CleanChatId(chat_id)
         IN  /\ groups' = IF db = "ok" THEN DeleteGroup(groups, clean) ELSE groups
             /\ last' = [NoLast EXCEPT
                    !.op = "remove_group", !.arg = chat_id, !.key = clean, !.db = db,
                    !.raised = DbConnRaises(db),
                    !.existed = RowsWith(groups, "chat_id", clean) # {},
                    !.ret = IF db = "ok" THEN Len(DeleteGroupReturning(groups, clean)) > 0
                            ELSE FALSE]
    /\ UNCHANGED <<prog, main_vars, db_verified_users, source_channel, history, other_vars>>

\* is_group_registered(chat_id)
is_group_registered ==
    /\ prog = "groups"
    /\ \E chat_id \in ChatIdArgs, db \in DbOutcomes :
         LET clean == CleanChatId(chat_id)
         IN  last' = [NoLast EXCEPT
                !.op = "is_group_registered", !.arg = chat_id, !.key = clean, !.db = db,
                !.raised = DbConnRaises(db),
                !.existed = RowsWith(groups, "chat_id", clean) # {},
                !.ret = IF db = "ok" THEN RowsWith(groups, "chat_id", clean) # {} ELSE FALSE]
    /\ UNCHANGED <<prog, main_vars, db_vars, history, other_vars>>

\* get_source_channel(): SELECT channel_id FROM source_channel LIMIT 1 gives any one row
get_source_channel ==
    /\ prog = "source_channel"
    /\ \E db \in DbOutcomes :
         \/ /\ db = "ok" /\ source_channel # {}
            /\ \E c \in source_channel :
                 last' = [NoLast EXCEPT !.op = "get_source_channel", !.db = db,
                                        !.raised = DbConnRaises(db),
                                        !.out = <<c>>]
         \/ /\ db # "ok" \/ source_channel = {}
            /\ last' = [NoLast EXCEPT !.op = "get_source_channel", !.db = db,
                                        !.raised = DbConnRaises(db)]
    /\ UNCHANGED <<prog, main_vars, db_vars, history, other_vars>>

\* set_source_channel(channel_id)
set_source_channel ==
    /\ prog = "source_channel"
    /\ \E channel_id \in ChannelIds, db \in DbOutcomes :
         /\ source_channel' = IF db = "ok" THEN UpsertSourceChannel(source_channel, channel_id)
                              ELSE source_channel
         /\ last' = [NoLast EXCEPT
                !.op = "set_source_channel", !.arg = channel_id, !.key = channel_id,
                !.db = db, !.raised = DbConnRaises(db),
                !.existed = channel_id \in source_channel,
                !.ret = (db = "ok")]
    /\ UNCHANGED <<prog, main_vars, db_verified_users, groups, history, other_vars>>

DatabaseNext ==
    \/ db_add_verified_user
    \/ db_remove_verified_user
    \/ db_is_user_verified
    \/ db_get_verified_users
    \/ get_all_groups
    \/ add_group
    \/ remove_group
    \/ is_group_registered
    \/ get_source_channel
    \/ set_source_channel

-----------------------------------------------------------------------------
(* main.py: inputs *)

\* the identities of the platform; 0 stands for None
Users == {1, 2}

\* the chats: the chat_id an argument can name and a join event can come from
Chats == {1, -1}

\* user.username of an identity
UsernameOf(u) == IF u = 1 THEN <<"a">> ELSE <<"b">>

\* the words of a command's argument list (context.args)
Tokens == { <<"1">>, <<"-", "1">>, <<"@", "b">> }

ArgLists == StringsUpTo(Tokens, 2)

\* the sender of the message a command replies to, 0 when it replies to none
ReplySenders == {0, 2}

\* the user_ref that stands for "the user of the message replied to"
ReplyRef == <<"reply">>

\* int(c) for one digit
DigitVal(c) ==
    CASE c = "0" -> 0 [] c = "1" -> 1 [] c = "2" -> 2 [] c = "3" -> 3 [] c = "4" -> 4
      [] c = "5" -> 5 [] c = "6" -> 6 [] c = "7" -> 7 [] c = "8" -> 8 [] c = "9" -> 9

RECURSIVE DigitsVal(_)
DigitsVal(s) ==
    IF Len(s) = 0 THEN 0
    ELSE 10 * DigitsVal(SubSeq(s, 1, Len(s) - 1)) + DigitVal(s[Len(s)])

\* int(s) raises ValueError unless s is an optional sign and digits
IntRaises(s) ==
    ~(\/ IsDigitStr(s)
      \/ Len(s) >= 2 /\ s[1] \in {"-", "+"} /\ IsDigitStr(Tail(s)))

\* int(s) when it does not raise
IntVal(s) ==
    IF IsDigitStr(s) THEN DigitsVal(s)
    ELSE IF s[1] = "-" THEN 0 - DigitsVal(Tail(s)) ELSE DigitsVal(Tail(s))

-----------------------------------------------------------------------------
(* main.py: the store functions *)

\* the connection of get_db_connection is bound to conn only when it succeeds; the
\* finally clause reads conn, so a failed connection ends the function by an
\* UnboundLocalError in place of the return of the except clause
ConnRaises(db) == db = "connfail"

\* an is_bot_admin that answers True for everyone
is_bot_admin_open(user_id, db) == [raised |-> ConnRaises(db), ret |-> db = "ok"]

\* is_bot_admin(user_id)
is_bot_admin(user_id, db) ==
    [raised |-> ConnRaises(db), ret |-> db = "ok" /\ user_id \in bot_admins]

GroupAdminRow(user_id, chat_id) ==
    [user_id |-> user_id, chat_id |-> chat_id, username |-> UsernameOf(user_id)]

VerifiedRow(user_id) ==
    [user_id |-> user_id, username |-> UsernameOf(user_id), status |-> "approved"]

\* the rows of group_admins with the primary key (user_id, chat_id)
GroupAdminRows(t, user_id, chat_id) ==
    [r \in {x \in BagToSet(t) : x.user_id = user_id /\ x.chat_id = chat_id} |-> t[r]]

\* the rows of verified_users with the primary key user_id
VerifiedRows(t, user_id) ==
    [r \in {x \in BagToSet(t) : x.user_id = user_id} |-> t[r]]

\* INSERT without the ON CONFLICT clause
InsertGroupAdminNoConflict(t, user_id, chat_id) ==
    t (+) SetToBag({GroupAdminRow(user_id, chat_id)})

\* INSERT INTO group_admins .. ON CONFLICT DO NOTHING
InsertGroupAdmin(t, user_id, chat_id) ==
    IF BagCardinality(GroupAdminRows(t, user_id, chat_id)) = 0
    THEN t (+) SetToBag({GroupAdminRow(user_id, chat_id)})
    ELSE t

\* cur.rowcount of that INSERT
InsertGroupAdminRowcount(t, user_id, chat_id) ==
    IF BagCardinality(GroupAdminRows(t, user_id, chat_id)) = 0 THEN 1 ELSE 0

\* INSERT INTO verified_users .. VALUES (.., 'approved')
\* ON CONFLICT (user_id) DO UPDATE SET status = 'approved'
UpsertVerifiedUser(t, user_id) ==
    IF BagCardinality(VerifiedRows(t, user_id)) = 0
    THEN t (+) SetToBag({VerifiedRow(user_id)})
    ELSE BagOfAll(LAMBDA r : IF r.user_id = user_id
                              THEN [r EXCEPT !.status = "approved"] ELSE r, t)

\* cur.rowcount of that INSERT: the row inserted or the rows updated
UpsertVerifiedUserRowcount(t, user_id) ==
    IF BagCardinality(VerifiedRows(t, user_id)) = 0 THEN 1
    ELSE BagCardinality(VerifiedRows(t, user_id))

\* a DELETE whose WHERE clause leaves out the chat_id
DeleteGroupAdminAnyChat(t, user_id, chat_id) ==
    t (-) [r \in {x \in BagToSet(t) : x.user_id = user_id} |-> t[r]]

\* DELETE FROM group_admins WHERE user_id = .. AND chat_id = ..
DeleteGroupAdmin(t, user_id, chat_id) == t (-) GroupAdminRows(t, user_id, chat_id)

\* DELETE FROM verified_users WHERE user_id = ..
DeleteVerifiedUser(t, user_id) == t (-) VerifiedRows(t, user_id)

\* add_group_admin(user_id, chat_id, username, full_name)
add_group_admin(user_id, chat_id, db) ==
    [raised |-> ConnRaises(db),
     ret |-> db = "ok" /\ InsertGroupAdminRowcount(group_admins, user_id, chat_id) > 0,
     table |-> IF db = "ok" THEN InsertGroupAdmin(group_admins, user_id, chat_id)
               ELSE group_admins]

\* add_verified_user(user_id, username, full_name)
add_verified_user(user_id, db) ==
    [raised |-> ConnRaises(db),
     ret |-> db = "ok" /\ UpsertVerifiedUserRowcount(verified_users, user_id) > 0,
     table |-> IF db = "ok" THEN UpsertVerifiedUser(verified_users, user_id)
               ELSE verified_users]

\* remove_verified_user(user_id)
remove_verified_user(user_id, db) ==
    [raised |-> ConnRaises(db),
     ret |-> db = "ok" /\ BagCardinality(VerifiedRows(verified_users, user_id)) > 0,
     table |-> IF db = "ok" THEN DeleteVerifiedUser(verified_users, user_id)
               ELSE verified_users]

\* remove_group_admin(user_id, chat_id)
remove_group_admin(user_id, chat_id, db) ==
    [raised |-> ConnRaises(db),
     ret |-> db = "ok" /\ BagCardinality(GroupAdminRows(group_admins, user_id, chat_id)) > 0,
     table |-> IF db = "ok" THEN DeleteGroupAdmin(group_admins, user_id, chat_id)
               ELSE group_admins]

\* get_user_info(context, user_ref): the identities it can return, 0 for None.  The
\* platform decides whether the lookup succeeds; reply_from is the sender of the
\* message replied to, 0 when the command replies to none
get_user_info(user_ref, reply_from) ==
    IF user_ref = ReplyRef THEN {0, reply_from}
    ELSE IF IsDigitStr(user_ref)
    THEN {0} \cup ({IntVal(user_ref)} \cap Users)
    ELSE LET name == IF StartsWith(user_ref, "@") THEN Tail(user_ref) ELSE user_ref
         IN  {0} \cup {u \in Users : UsernameOf(u) = name}

\* error_handler: the reply to the message of the update, when it has one
error_handler(has_message) == IF has_message THEN <<"error">> ELSE <<>>

-----------------------------------------------------------------------------
(* main.py: the command handlers *)

\* the dispatcher runs one handler at a time
Idle == prog = "main" /\ ~join.running

AuthStr(a) == IF a.raised THEN "raise" ELSE IF a.ret THEN "true" ELSE "false"

\* the first lines of every administrative command: the handler ends there when
\* is_bot_admin raises or answers False
Unauthorized(op, invoker, a) ==
    /\ a.raised \/ ~a.ret
    /\ last' = [NoLast EXCEPT
            !.op = op, !.who = invoker, !.auth = AuthStr(a), !.raised = a.raised,
            !.replies = IF a.raised THEN error_handler(TRUE) ELSE <<"denied">>]
    /\ UNCHANGED <<group_admins, verified_users>>

\* what a command does once its store call r on the row (user_id, chat_id) is made
Stored(op, invoker, user_id, chat_id, db, existed, r, yes, no) ==
    last' = [NoLast EXCEPT
        !.op = op, !.who = invoker, !.auth = "true", !.user_id = user_id,
        !.chat_id = chat_id, !.db = db, !.existed = existed, !.ret = r.ret,
        !.raised = r.raised,
        !.replies = IF r.raised THEN error_handler(TRUE)
                    ELSE IF r.ret THEN <<yes>> ELSE <<no>>]

\* a command that ends with the one reply
Replied(op, invoker, reply) ==
    /\ last' = [NoLast EXCEPT !.op = op, !.who = invoker, !.auth = "true",
                              !.replies = <<reply>>]
    /\ UNCHANGED <<group_admins, verified_users>>

\* /addverified
add_verified_command ==
    /\ Idle
    /\ \E invoker \in Users, db1 \in DbOutcomes :
         LET a == is_bot_admin(invoker, db1)
         IN  \/ Unauthorized("add_verified_command", invoker, a)
             \/ /\ ~a.raised /\ a.ret
                /\ \E args \in StringsUpTo(Tokens, 1), reply_from \in ReplySenders :
                     LET user_ref == IF Len(args) > 0 THEN args[1] ELSE ReplyRef
                     IN  \E user_id \in get_user_info(user_ref, reply_from) :
                           \/ /\ user_id = 0
                              /\ Replied("add_verified_command", invoker, "unidentified")
                           \/ /\ user_id # 0
                              /\ \E db \in DbOutcomes :
                                   LET r == add_verified_user(user_id, db)
                                   IN  /\ verified_users' = r.table
                                       /\ Stored("add_verified_command", invoker, user_id, 0,
                                                 db,
                                                 BagCardinality(VerifiedRows(verified_users,
                                                                             user_id)) > 0,
                                                 r, "added", "already")
                                       /\ UNCHANGED group_admins
    /\ UNCHANGED <<prog, bot_admins, join, db_vars, history, other_vars>>

\* /removeverified
remove_verified_command ==
    /\ Idle
    /\ \E invoker \in Users, db1 \in DbOutcomes :
         LET a == is_bot_admin(invoker, db1)
         IN  \/ Unauthorized("remove_verified_command", invoker, a)
             \/ /\ ~a.raised /\ a.ret
                /\ \E args \in StringsUpTo(Tokens, 1), reply_from \in ReplySenders :
                     LET user_ref == IF Len(args) > 0 THEN args[1] ELSE ReplyRef
                     IN  \E user_id \in get_user_info(user_ref, reply_from) :
                           \/ /\ user_id = 0
                              /\ Replied("remove_verified_command", invoker, "unidentified")
                           \/ /\ user_id # 0
                              /\ \E db \in DbOutcomes :
                                   LET r == remove_verified_user(user_id, db)
                                   IN  /\ verified_users' = r.table
                                       /\ Stored("remove_verified_command", invoker, user_id,
                                                 0, db,
                                                 BagCardinality(VerifiedRows(verified_users,
                                                                             user_id)) > 0,
                                                 r, "removed", "not_in_list")
                                       /\ UNCHANGED group_admins
    /\ UNCHANGED <<prog, bot_admins, join, db_vars, history, other_vars>>

\* the argument handling of /addgroupadmin (is_add) and /removegroupadmin: the reply
\* that ends the command, or the user_ref and the chat_id text it goes on with
GroupAdminArgs(args, reply_from, is_add) ==
    IF (is_add /\ Len(args) = 0) \/ (Len(args) = 1 /\ reply_from # 0)
    THEN IF reply_from = 0
         THEN [stop |-> "need_reply", raised |-> FALSE, user_ref |-> <<>>, chat |-> <<>>]
         ELSE IF Len(args) = 0
         THEN \* context.args[0] of an empty list: IndexError
              [stop |-> "", raised |-> TRUE, user_ref |-> <<>>, chat |-> <<>>]
         ELSE [stop |-> "", raised |-> FALSE, user_ref |-> ReplyRef, chat |-> args[1]]
    ELSE IF Len(args) < 2
         THEN [stop |-> "need_args", raised |-> FALSE, user_ref |-> <<>>, chat |-> <<>>]
         ELSE [stop |-> "", raised |-> FALSE, user_ref |-> args[1], chat |-> args[2]]

\* a command ended by an exception of the handler itself
Raised(op, invoker) ==
    /\ last' = [NoLast EXCEPT !.op = op, !.who = invoker, !.auth = "true",
                              !.raised = TRUE, !.replies = error_handler(TRUE)]
    /\ UNCHANGED <<group_admins, verified_users>>

\* a command that ends with the one reply, its group id text being chat
RepliedChat(op, invoker, reply, chat) ==
    /\ last' = [NoLast EXCEPT !.op = op, !.who = invoker, !.auth = "true", !.arg = chat,
                              !.replies = <<reply>>]
    /\ UNCHANGED <<group_admins, verified_users>>

\* the two checks in the other order: the user first, then the group id
GroupAdminCheckUserFirst(chat, user_id) ==
    IF user_id = 0 THEN "unidentified"
    ELSE IF IntRaises(chat) THEN "chat_id_not_number"
    ELSE ""

\* chat_id = int(chat_id), then if not user_info: the reply that ends the command, ""
\* when it goes on to the store call
GroupAdminCheck(chat, user_id) ==
    IF IntRaises(chat) THEN "chat_id_not_number"
    ELSE IF user_id = 0 THEN "unidentified"
    ELSE ""

\* /addgroupadmin
add_group_admin_command ==
    /\ Idle
    /\ \E invoker \in Users, db1 \in DbOutcomes :
         LET a == is_bot_admin(invoker, db1)
         IN  \/ Unauthorized("add_group_admin_command", invoker, a)
             \/ /\ ~a.raised /\ a.ret
                /\ \E args \in ArgLists, reply_from \in ReplySenders :
                     LET p == GroupAdminArgs(args, reply_from, TRUE)
                     IN  \/ /\ p.raised
                            /\ Raised("add_group_admin_command", invoker)
                         \/ /\ ~p.raised /\ p.stop # ""
                            /\ Replied("add_group_admin_command", invoker, p.stop)
                         \/ /\ ~p.raised /\ p.stop = ""
                            /\ \E user_id \in get_user_info(p.user_ref, reply_from) :
                                 \/ /\ GroupAdminCheck(p.chat, user_id) # ""
                                    /\ RepliedChat("add_group_admin_command", invoker,
                                                   GroupAdminCheck(p.chat, user_id),
                                                   p.chat)
                                 \/ /\ GroupAdminCheck(p.chat, user_id) = ""
                                    /\ \E db \in DbOutcomes :
                                         LET chat_id == IntVal(p.chat)
                                             r == add_group_admin(user_id, chat_id, db)
                                         IN  /\ group_admins' = r.table
                                             /\ Stored("add_group_admin_command", invoker,
                                                       user_id, chat_id, db,
                                                       BagCardinality(GroupAdminRows(
                                                           group_admins, user_id, chat_id)) > 0,
                                                       r, "added", "already")
                                             /\ UNCHANGED verified_users
    /\ UNCHANGED <<prog, bot_admins, join, db_vars, history, other_vars>>

\* /removegroupadmin
remove_group_admin_command ==
    /\ Idle
    /\ \E invoker \in Users, db1 \in DbOutcomes :
         LET a == is_bot_admin(invoker, db1)
         IN  \/ Unauthorized("remove_group_admin_command", invoker, a)
             \/ /\ ~a.raised /\ a.ret
                /\ \E args \in ArgLists, reply_from \in ReplySenders :
                     LET p == GroupAdminArgs(args, reply_from, FALSE)
                     IN  \/ /\ ~p.raised /\ p.stop # ""
                            /\ Replied("remove_group_admin_command", invoker, p.stop)
                         \/ /\ ~p.raised /\ p.stop = ""
                            /\ \E user_id \in get_user_info(p.user_ref, reply_from) :
                                 \/ /\ GroupAdminCheck(p.chat, user_id) # ""
                                    /\ RepliedChat("remove_group_admin_command", invoker,
                                                   GroupAdminCheck(p.chat, user_id),
                                                   p.chat)
                                 \/ /\ GroupAdminCheck(p.chat, user_id) = ""
                                    /\ \E db \in DbOutcomes :
                                         LET chat_id == IntVal(p.chat)
                                             r == remove_group_admin(user_id, chat_id, db)
                                         IN  /\ group_admins' = r.table
                                             /\ Stored("remove_group_admin_command", invoker,
                                                       user_id, chat_id, db,
                                                       BagCardinality(GroupAdminRows(
                                                           group_admins, user_id, chat_id)) > 0,
                                                       r, "removed", "not_in_list")
                                             /\ UNCHANGED verified_users
    /\ UNCHANGED <<prog, bot_admins, join, db_vars, history, other_vars>>

\* /listverified and /listgroupadmins: the handler's own try block around the query
\* (rows: the table has rows to list)
ListReplies(db, rows) ==
    IF db = "connfail"
    THEN \* the except clause replies, then the finally clause reads the unbound conn
         <<"list_error">> \o error_handler(TRUE)
    ELSE IF db = "queryfail" THEN <<"list_error">>
    ELSE IF rows THEN <<"list">> ELSE <<"empty_list">>

\* the orders in which a SELECT without ORDER BY can give the rows of S
AnyOrder(S) ==
    {q \in [1..Cardinality(S) -> S] : \A i, j \in 1..Cardinality(S) : q[i] = q[j] => i = j}

\* SELECT user_id, username, full_name FROM verified_users WHERE status = 'approved':
\* the user_id of the rows, in the orders the query can give them
SelectApprovedUsers(t) ==
    AnyOrder({r.user_id : r \in {x \in BagToSet(t) : x.status = "approved"}})

\* /listverified
list_verified_command ==
    /\ Idle
    /\ \E invoker \in Users, db1 \in DbOutcomes :
         LET a == is_bot_admin(invoker, db1)
         IN  \/ Unauthorized("list_verified_command", invoker, a)
             \/ /\ ~a.raised /\ a.ret
                /\ \E db \in DbOutcomes :
                   \E out \in (IF db = "ok" THEN SelectApprovedUsers(verified_users)
                                ELSE { <<>> }) :
                     last' = [NoLast EXCEPT
                        !.op = "list_verified_command", !.who = invoker, !.auth = "true",
                        !.db = db, !.raised = ConnRaises(db), !.out = out,
                        !.replies = ListReplies(db, BagCardinality(verified_users) > 0)]
                /\ UNCHANGED <<group_admins, verified_users>>
    /\ UNCHANGED <<prog, bot_admins, join, db_vars, history, other_vars>>

\* /listgroupadmins
list_group_admins_command ==
    /\ Idle
    /\ \E invoker \in Users, db1 \in DbOutcomes :
         LET a == is_bot_admin(invoker, db1)
         IN  \/ Unauthorized("list_group_admins_command", invoker, a)
             \/ /\ ~a.raised /\ a.ret
                /\ \E db \in DbOutcomes :
                     last' = [NoLast EXCEPT
                        !.op = "list_group_admins_command", !.who = invoker, !.auth = "true",
                        !.db = db, !.raised = ConnRaises(db),
                        !.replies = ListReplies(db, BagCardinality(group_admins) > 0)]
                /\ UNCHANGED <<group_admins, verified_users>>
    /\ UNCHANGED <<prog, bot_admins, join, db_vars, history, other_vars>>

\* /start: the menu of the administrators, of the other users, or the group greeting
start ==
    /\ Idle
    /\ \E invoker \in Users, private \in BOOLEAN :
         \/ /\ ~private
            /\ last' = [NoLast EXCEPT !.op = "start", !.who = invoker,
                                      !.replies = <<"group_greeting">>]
         \/ /\ private
            /\ \E db1 \in DbOutcomes :
                 LET a == is_bot_admin(invoker, db1)
                 IN  last' = [NoLast EXCEPT
                        !.op = "start", !.who = invoker, !.auth = AuthStr(a),
                        !.raised = a.raised,
                        !.replies = IF a.raised THEN error_handler(TRUE)
                                    ELSE IF a.ret THEN <<"admin_menu">> ELSE <<"user_menu">>]
    /\ UNCHANGED <<prog, main_vars, db_vars, history, other_vars>>

\* callback_data of the inline buttons
ButtonData ==
    {"be_verified", "i_am_admin", "admin_add_verified", "admin_remove_verified",
     "admin_add_group_admin", "admin_remove_group_admin", "admin_list_verified",
     "admin_list_group_admins"}

\* button_handler: the text of the message is edited, or a hint is sent
button_handler ==
    /\ Idle
    /\ \E data \in ButtonData :
         last' = [NoLast EXCEPT !.op = "button_handler", !.replies = <<data>>]
    /\ UNCHANGED <<prog, main_vars, db_vars, history, other_vars>>

\* handle_verification_keywords: a text message, in a group or not, with a keyword or not
handle_verification_keywords ==
    /\ Idle
    /\ \E in_group \in BOOLEAN, keyword \in BOOLEAN :
         last' = [NoLast EXCEPT
            !.op = "handle_verification_keywords",
            !.replies = IF in_group /\ keyword THEN <<"verification_info">> ELSE <<>>]
    /\ UNCHANGED <<prog, main_vars, db_vars, history, other_vars>>

-----------------------------------------------------------------------------
(* main.py: handle_new_member *)

\* no call of handle_new_member is in progress
NoJoin ==
    [running |-> FALSE, chat_id |-> 0, pending |-> <<>>, conn_bound |-> FALSE,
     outcomes |-> {}]

Call(call, arg, ok) == [call |-> call, arg |-> arg, ok |-> ok]

\* the first block of a handler that remembers the members it has served: it is
\* skipped once an earlier join event has made a grant
AdminGrantOnce(is_group_admin) ==
    IF ~is_group_admin \/ history # {} THEN { <<>> }
    ELSE { <<Call("promote_chat_member", "all", TRUE), Call("send_message", "admin", TRUE)>>,
           <<Call("promote_chat_member", "all", TRUE), Call("send_message", "admin", FALSE)>>,
           <<Call("promote_chat_member", "all", FALSE)>> }

\* the first block retried once after a failed promote_chat_member
AdminGrantRetry(is_group_admin) ==
    IF ~is_group_admin THEN { <<>> }
    ELSE { <<Call("promote_chat_member", "all", TRUE), Call("send_message", "admin", TRUE)>>,
           <<Call("promote_chat_member", "all", TRUE), Call("send_message", "admin", FALSE)>>,
           <<Call("promote_chat_member", "all", FALSE),
             Call("promote_chat_member", "all", TRUE), Call("send_message", "admin", TRUE)>> }

\* if is_group_admin: promote_chat_member with every permission, then the welcome
\* message; a TelegramError of either ends the block and is logged.  The platform
\* calls the block can make, with their outcomes
AdminGrant(is_group_admin) ==
    IF ~is_group_admin THEN { <<>> }
    ELSE { <<Call("promote_chat_member", "all", TRUE), Call("send_message", "admin", TRUE)>>,
           <<Call("promote_chat_member", "all", TRUE), Call("send_message", "admin", FALSE)>>,
           <<Call("promote_chat_member", "all", FALSE)>> }

\* a second block that sends its welcome message before the title is assigned
VerifiedGrantWelcomeFirst(is_group_admin, is_verified) ==
    IF ~is_verified THEN { <<>> }
    ELSE { <<Call("promote_chat_member", "none", TRUE),
             Call("send_message", "verified", TRUE),
             Call("set_chat_administrator_custom_title", "Verificada", TRUE)>>,
           <<Call("promote_chat_member", "none", TRUE),
             Call("send_message", "verified", TRUE),
             Call("set_chat_administrator_custom_title", "Verificada", FALSE)>>,
           <<Call("promote_chat_member", "none", TRUE),
             Call("send_message", "verified", FALSE)>>,
           <<Call("promote_chat_member", "none", FALSE)>> }

\* if is_verified: promote_chat_member with no permission, the custom title
\* 'Verificada', then the welcome message; a TelegramError of any ends the block
VerifiedGrant(is_group_admin, is_verified) ==
    IF ~is_verified THEN { <<>> }
    ELSE { <<Call("promote_chat_member", "none", TRUE),
             Call("set_chat_administrator_custom_title", "Verificada", TRUE),
             Call("send_message", "verified", TRUE)>>,
           <<Call("promote_chat_member", "none", TRUE),
             Call("set_chat_administrator_custom_title", "Verificada", TRUE),
             Call("send_message", "verified", FALSE)>>,
           <<Call("promote_chat_member", "none", TRUE),
             Call("set_chat_administrator_custom_title", "Verificada", FALSE)>>,
           <<Call("promote_chat_member", "none", FALSE)>> }

\* a lookup whose WHERE clause leaves out the chat_id
IsGroupAdminAnyChat(user_id, chat_id) ==
    \E r \in BagToSet(group_admins) : r.user_id = user_id

\* SELECT 1 FROM group_admins WHERE user_id = .. AND chat_id = ..
IsGroupAdmin(user_id, chat_id) ==
    BagCardinality(GroupAdminRows(group_admins, user_id, chat_id)) > 0

\* SELECT 1 FROM verified_users WHERE user_id = .. AND status = 'approved'
IsVerified(user_id) ==
    \E r \in BagToSet(verified_users) : r.user_id = user_id /\ r.status = "approved"

\* the runs in which join events arrive: main.py as a whole, or its join handler on a
\* store the commands have filled (SpecJoin)
JoinProgs == {"main", "join"}

\* member.username of a joining member: the platform lets a user change the handle, so
\* it need not be the one a row of the store was written with
MemberHandles == {UsernameOf(u) : u \in Users}

\* (history, join.outcomes: the grants of the join events that are over and of the one
\* in progress, kept in the runs of the join handler alone)
\* what a turn of the loop did for the member: "none" when it made no grant call,
\* "failed" when one of its grant calls failed, "granted" otherwise
JoinOutcome(g) ==
    IF ~\E i \in 1..Len(g) : g[i].call # "send_message" THEN "none"
    ELSE IF \E i \in 1..Len(g) : g[i].call # "send_message" /\ ~g[i].ok THEN "failed"
    ELSE "granted"

\* a join event arrives: the handler returns at once when the update carries no new
\* member, and enters its loop otherwise; conn is not bound yet
join_event ==
    /\ prog \in JoinProgs
    /\ ~join.running
    /\ \E chat_id \in Chats, members \in StringsUpTo(Users, MaxMembers) :
         /\ join' = IF members = <<>> THEN NoJoin
                    ELSE [running |-> TRUE, chat_id |-> chat_id, pending |-> members,
                          conn_bound |-> FALSE, outcomes |-> {}]
         /\ last' = [NoLast EXCEPT !.op = "join_event", !.chat_id = chat_id]
    /\ UNCHANGED <<prog, bot_admins, group_admins, verified_users, db_vars, history, other_vars>>

\* one turn of the loop of handle_new_member, for the next member of the event
handle_new_member ==
    /\ prog \in JoinProgs
    /\ join.running
    /\ join.pending # <<>>
    /\ \E username \in MemberHandles, db1 \in DbOutcomes :
       LET user_id == Head(join.pending)
           chat_id == join.chat_id
           base == [NoLast EXCEPT !.op = "handle_new_member", !.who = user_id,
                                  !.user_id = user_id, !.chat_id = chat_id,
                                  !.arg = username]
       IN
             \/ \* the first connection of the call fails: the finally clause reads
                \* the unbound conn and the handler ends by an UnboundLocalError;
                \* the update has no message, so error_handler replies nothing
                /\ db1 = "connfail" /\ ~join.conn_bound
                /\ last' = [base EXCEPT
                        !.raised = TRUE, !.replies = error_handler(FALSE),
                        !.log = <<Call("select_group_admins", "", FALSE)>>]
                /\ join' = NoJoin
                /\ history' = history \cup join.outcomes
             \/ /\ ~(db1 = "connfail" /\ ~join.conn_bound)
                /\ \E db2 \in DbOutcomes :
                     LET is_group_admin == db1 = "ok" /\ IsGroupAdmin(user_id, chat_id)
                         is_verified == db2 = "ok" /\ IsVerified(user_id)
                     IN  \E g1 \in AdminGrant(is_group_admin),
                            g2 \in VerifiedGrant(is_group_admin, is_verified) :
                           /\ join' = [join EXCEPT
                                !.pending = Tail(join.pending), !.conn_bound = TRUE,
                                !.outcomes =
                                    IF prog = "join" /\ JoinOutcome(g1 \o g2) # "none"
                                    THEN @ \cup {<<user_id, JoinOutcome(g1 \o g2)>>}
                                    ELSE @]
                           /\ last' = [base EXCEPT
                                !.is_group_admin = is_group_admin,
                                !.is_verified = is_verified,
                                !.log = <<Call("select_group_admins", "", db1 = "ok")>> \o g1
                                        \o <<Call("select_verified_users", "", db2 = "ok")>>
                                        \o g2]
                /\ UNCHANGED history
    /\ UNCHANGED <<prog, bot_admins, group_admins, verified_users, db_vars, other_vars>>

\* the loop of handle_new_member is over: the handler returns
handle_new_member_return ==
    /\ prog \in JoinProgs
    /\ join.running
    /\ join.pending = <<>>
    /\ join' = NoJoin
    /\ history' = history \cup join.outcomes
    /\ last' = [NoLast EXCEPT !.op = "handle_new_member_return", !.chat_id = join.chat_id]
    /\ UNCHANGED <<prog, bot_admins, group_admins, verified_users, db_vars, other_vars>>

-----------------------------------------------------------------------------
(* The specification *)

BOT_ADMINS == {1}

\* no username is being normalized, no store calls overlap, no dispatch runs, main()
\* is not starting
NoNorm == [pc |-> "none", arg |-> <<>>, key |-> <<>>, username |-> <<>>]
NoConc == [pc |-> <<>>]
NoDispatch == [pc |-> "none"]
NoStartup == [pc |-> "none"]

Init ==
    /\ prog \in {"main", "verified_users", "groups", "source_channel"}
    /\ bot_admins = BOT_ADMINS
    /\ group_admins = EmptyBag
    /\ verified_users = EmptyBag
    /\ join = NoJoin
    /\ db_verified_users = <<>>
    /\ groups = <<>>
    /\ source_channel = {}
    /\ last = NoLast
    /\ norm = NoNorm
    /\ history = {}
    /\ conc = NoConc
    /\ dispatch = NoDispatch
    /\ startup = NoStartup

MainNext ==
    \/ add_verified_command
    \/ remove_verified_command
    \/ add_group_admin_command
    \/ remove_group_admin_command
    \/ list_verified_command
    \/ list_group_admins_command
    \/ start
    \/ button_handler
    \/ handle_verification_keywords
    \/ join_event
    \/ handle_new_member
    \/ handle_new_member_return

Next ==
    \/ MainNext
    \/ DatabaseNext

Spec == Init /\ [][Next]_vars

\* handle_new_member alone, on the stores the commands can leave, with the grants of
\* the earlier join events kept in history
JoinStores ==
    { [admins |-> {}, verified |-> {}],
      [admins |-> {<<1, 1>>}, verified |-> {}],
      [admins |-> {}, verified |-> {1}],
      [admins |-> {<<1, 1>>, <<2, -1>>}, verified |-> {2}] }

InitJoin ==
    /\ prog = "join"
    /\ bot_admins = BOT_ADMINS
    /\ \E st \in JoinStores :
         /\ group_admins = SetToBag({GroupAdminRow(k[1], k[2]) : k \in st.admins})
         /\ verified_users = SetToBag({VerifiedRow(u) : u \in st.verified})
    /\ join = NoJoin
    /\ db_verified_users = <<>>
    /\ groups = <<>>
    /\ source_channel = {}
    /\ last = NoLast
    /\ norm = NoNorm
    /\ history = {}
    /\ conc = NoConc
    /\ dispatch = NoDispatch
    /\ startup = NoStartup

JoinNext ==
    \/ join_event
    \/ handle_new_member
    \/ handle_new_member_return

SpecJoin == InitJoin /\ [][JoinNext]_vars

-----------------------------------------------------------------------------
(* Two calls that add the same key at the same time: add_group_admin of main.py   *)
(* (prog = "conc_group_admins") or add_group of database.py (prog = "conc_groups"). *)
(* Each call has its own connection and transaction: the INSERT runs in it and    *)
(* the row is in the table once the call commits.                                  *)

ConcProgs == {"conc_group_admins", "conc_groups"}

\* the two calls
Procs == {1, 2}

\* the key both calls add: add_group_admin(ConcUser, ConcChat, ..), add_group(ConcChatId, p)
ConcUser == 2
ConcChat == 1
ConcChatId == <<"-", "1">>

\* a table without the primary key: no INSERT waits for another
UniqueKeyWaitNone(p) == FALSE

\* the primary key of the table: an INSERT of a key that a transaction still open has
\* inserted waits until that transaction is over
UniqueKeyWait(p) ==
    \E q \in Procs \ {p} : conc.pc[q] = "executed" /\ conc.rows[q] > 0

InitConc ==
    /\ prog \in ConcProgs
    /\ bot_admins = BOT_ADMINS
    /\ group_admins \in {EmptyBag, SetToBag({GroupAdminRow(1, 1)}),
                         SetToBag({GroupAdminRow(2, -1)})}
    /\ verified_users = EmptyBag
    /\ join = NoJoin
    /\ db_verified_users = <<>>
    /\ groups \in { <<>>, <<[chat_id |-> <<"2">>, added_by |-> 1]>> }
    /\ source_channel = {}
    /\ last = NoLast
    /\ norm = NoNorm
    /\ history = {}
    /\ conc = [pc |-> [p \in Procs |-> "start"], db |-> [p \in Procs |-> "none"],
               rows |-> [p \in Procs |-> 0], ret |-> [p \in Procs |-> FALSE],
               raised |-> [p \in Procs |-> FALSE], overlapped |-> FALSE]
    /\ dispatch = NoDispatch
    /\ startup = NoStartup

\* conn = get_db_connection() / get_connection()
conc_connect ==
    /\ prog \in ConcProgs
    /\ \E p \in Procs, db \in DbOutcomes :
         /\ conc.pc[p] = "start"
         /\ conc' = [conc EXCEPT
                !.db[p] = db,
                !.pc[p] = IF db = "connfail" THEN "done" ELSE "connected",
                !.raised[p] = prog = "conc_group_admins" /\ ConnRaises(db)]
    /\ UNCHANGED <<prog, main_vars, db_vars, last, norm, history, dispatch, startup>>

\* cur.execute(INSERT .. ON CONFLICT .. DO NOTHING): the statement fails, or it waits,
\* or it runs and gives rowcount resp. the RETURNING rows
conc_execute ==
    /\ prog \in ConcProgs
    /\ \E p \in Procs :
         /\ conc.pc[p] = "connected"
         /\ \/ /\ conc.db[p] = "queryfail"
               /\ conc' = [conc EXCEPT !.pc[p] = "done"]
            \/ /\ conc.db[p] = "ok"
               /\ ~UniqueKeyWait(p)
               /\ conc' = [conc EXCEPT
                      !.pc[p] = "executed",
                      !.rows[p] =
                          IF prog = "conc_groups"
                          THEN Len(InsertGroupReturning(groups, CleanChatId(ConcChatId)))
                          ELSE InsertGroupAdminRowcount(group_admins, ConcUser, ConcChat),
                      !.overlapped =
                          @ \/ \E q \in Procs \ {p} :
                                    conc.pc[q] \in {"connected", "executed"}]
    /\ UNCHANGED <<prog, main_vars, db_vars, last, norm, history, dispatch, startup>>

\* conn.commit() and the return: the inserted row is in the table
conc_commit ==
    /\ prog \in ConcProgs
    /\ \E p \in Procs :
         /\ conc.pc[p] = "executed"
         /\ conc' = [conc EXCEPT !.pc[p] = "done", !.ret[p] = conc.rows[p] > 0]
         /\ groups' =
                IF prog = "conc_groups" /\ conc.rows[p] > 0
                THEN InsertGroup(groups, CleanChatId(ConcChatId), p)
                ELSE groups
         /\ group_admins' =
                IF prog = "conc_group_admins" /\ conc.rows[p] > 0
                THEN InsertGroupAdmin(group_admins, ConcUser, ConcChat)
                ELSE group_admins
    /\ UNCHANGED <<prog, bot_admins, verified_users, join, db_verified_users,
                   source_channel, last, norm, history, dispatch, startup>>

ConcNext ==
    \/ conc_connect
    \/ conc_execute
    \/ conc_commit

SpecConc == InitConc /\ [][ConcNext]_vars

-----------------------------------------------------------------------------
(* The fan-out dispatcher and the reach reporter (spec sections 4.3 and 4.5) over  *)
(* the group catalog of database.py: the snapshot is get_all_groups(), the prune is *)
(* remove_group(chat_id).                                                          *)

\* what the platform answers to one delivery
DeliveryResults == {"ok", "timeout", "forbidden"}

\* the classification of step 3
Classify(result) ==
    CASE result = "ok" -> "Delivered"
      [] result \in {"rate_limit", "timeout"} -> "TransientFailure"
      [] OTHER -> "PermanentFailure"

\* only a permanent failure triggers prune
Prunes(kind) == kind = "PermanentFailure"

\* getMemberCount of a delivered destination; 0 also when the lookup fails
MemberCounts == {0, 50}

\* the chat ids the catalog holds, as add_group stores them
DestinationIds == {<<NonZeroDigits[i]>> : i \in 1..MaxDestinations}

\* the catalogs add_group and remove_group can leave: rows of distinct chat ids
Catalogs ==
    {t \in StringsUpTo([chat_id : DestinationIds, added_by : {1}], MaxDestinations) :
        \A i, j \in 1..Len(t) : t[i].chat_id = t[j].chat_id => i = j}

RECURSIVE DeliveredCount(_)
\* groupCount: the Delivered outcomes
DeliveredCount(outcomes) ==
    IF outcomes = <<>> THEN 0
    ELSE (IF Head(outcomes).delivered THEN 1 ELSE 0) + DeliveredCount(Tail(outcomes))

RECURSIVE AllMembers(_)
\* memberCount summed over every outcome
AllMembers(outcomes) ==
    IF outcomes = <<>> THEN 0
    ELSE Head(outcomes).memberCount + AllMembers(Tail(outcomes))

RECURSIVE DeliveredMembers(_)
\* totalMembers: memberCount summed over the Delivered outcomes
DeliveredMembers(outcomes) ==
    IF outcomes = <<>> THEN 0
    ELSE (IF Head(outcomes).delivered THEN Head(outcomes).memberCount ELSE 0)
         + DeliveredMembers(Tail(outcomes))

\* summarize(outcomes): the distinct result for no destination, the counts otherwise
summarize(outcomes) ==
    IF outcomes = <<>> THEN [kind |-> "no_reachable_destinations"]
    ELSE [kind |-> "summary", groupCount |-> DeliveredCount(outcomes),
          totalMembers |-> DeliveredMembers(outcomes)]

InitDispatch ==
    /\ prog = "dispatch"
    /\ bot_admins = BOT_ADMINS
    /\ group_admins = EmptyBag
    /\ verified_users = EmptyBag
    /\ join = NoJoin
    /\ db_verified_users = <<>>
    /\ groups \in Catalogs
    /\ source_channel = {}
    /\ last = NoLast
    /\ norm = NoNorm
    /\ history = {}
    /\ conc = NoConc
    /\ dispatch = [pc |-> "idle", before |-> <<>>, snapshot |-> <<>>, outcomes |-> <<>>,
                   report |-> [kind |-> "none"]]
    /\ startup = NoStartup

\* step 1: the snapshot of the catalog; get_all_groups() gives [] on a storage error
dispatch_start ==
    /\ prog = "dispatch"
    /\ dispatch.pc \in {"idle", "done"}
    /\ \E db \in DbOutcomes :
         dispatch' = [pc |-> "run", before |-> groups,
                      snapshot |-> IF db = "ok" THEN SelectAllGroups(groups) ELSE <<>>,
                      outcomes |-> <<>>, report |-> [kind |-> "none"]]
    /\ UNCHANGED <<prog, main_vars, db_vars, last, norm, history, conc, startup>>

\* steps 2 to 4 for the next destination of the snapshot: the delivery, its
\* classification, the member count of a delivered destination, and for a permanent
\* failure the prune, remove_group(destination), whose statement can fail
dispatch_attempt ==
    /\ prog = "dispatch"
    /\ dispatch.pc = "run"
    /\ Len(dispatch.outcomes) < Len(dispatch.snapshot)
    /\ \E result \in DeliveryResults :
         LET destination == dispatch.snapshot[Len(dispatch.outcomes) + 1]
             kind == Classify(result)
         IN  \E count \in (IF kind = "Delivered" THEN MemberCounts ELSE {0}),
                db \in (IF Prunes(kind) THEN DbOutcomes ELSE {"none"}) :
               /\ groups' = IF db = "ok" THEN DeleteGroup(groups, CleanChatId(destination))
                            ELSE groups
               /\ dispatch' = [dispatch EXCEPT !.outcomes = Append(@,
                        [destination |-> destination, result |-> result, kind |-> kind,
                         delivered |-> kind = "Delivered", memberCount |-> count,
                         prune |-> db])]
    /\ UNCHANGED <<prog, main_vars, db_verified_users, source_channel, last, norm,
                   history, conc, startup>>

\* step 5: the outcome list goes to the reach reporter
dispatch_finish ==
    /\ prog = "dispatch"
    /\ dispatch.pc = "run"
    /\ Len(dispatch.outcomes) = Len(dispatch.snapshot)
    /\ dispatch' = [dispatch EXCEPT !.pc = "done", !.report = summarize(dispatch.outcomes)]
    /\ UNCHANGED <<prog, main_vars, db_vars, last, norm, history, conc, startup>>

DispatchNext ==
    \/ dispatch_start
    \/ dispatch_attempt
    \/ dispatch_finish

SpecDispatch == InitDispatch /\ [][DispatchNext]_vars

\* the reach reporter alone, on every outcome list: a DispatchOutcome has a
\* memberCount whether it is delivered or not
OutcomeLists ==
    StringsUpTo([delivered : BOOLEAN, memberCount : {0, 30, 50}], MaxOutcomes)

InitSummarize ==
    /\ prog = "summarize"
    /\ bot_admins = BOT_ADMINS
    /\ group_admins = EmptyBag
    /\ verified_users = EmptyBag
    /\ join = NoJoin
    /\ db_verified_users = <<>>
    /\ groups = <<>>
    /\ source_channel = {}
    /\ last = NoLast
    /\ norm = NoNorm
    /\ history = {}
    /\ conc = NoConc
    /\ startup = NoStartup
    /\ \E outcomes \in OutcomeLists :
         dispatch = [pc |-> "outcomes", outcomes |-> outcomes, report |-> [kind |-> "none"]]

\* summarize(outcomes)
summarize_outcomes ==
    /\ prog = "summarize"
    /\ dispatch.pc = "outcomes"
    /\ dispatch' = [dispatch EXCEPT !.pc = "done", !.report = summarize(dispatch.outcomes)]
    /\ UNCHANGED <<prog, main_vars, db_vars, last, norm, history, conc, startup>>

SummarizeNext ==
    \/ summarize_outcomes

SpecSummarize == InitSummarize /\ [][SummarizeNext]_vars

-----------------------------------------------------------------------------
(* main(): init_db, the token, the bot administrators of the environment, the     *)
(* handlers and the polling.                                                       *)

\* the pieces of os.getenv('BOT_ADMINS', '').split(',')
AdminIdTexts == { <<>>, <<"1">>, <<" ", "2">>, <<"x">> }

\* the handlers main() registers, the error handler last
Handlers ==
    <<"start", "add_verified_command", "remove_verified_command",
      "add_group_admin_command", "remove_group_admin_command", "list_verified_command",
      "list_group_admins_command", "handle_verification_keywords", "button_handler",
      "handle_new_member", "error_handler">>

InitStartup ==
    /\ prog = "startup"
    /\ bot_admins = {}
    /\ group_admins = EmptyBag
    /\ verified_users = EmptyBag
    /\ join = NoJoin
    /\ db_verified_users = <<>>
    /\ groups = <<>>
    /\ source_channel = {}
    /\ last = NoLast
    /\ norm = NoNorm
    /\ history = {}
    /\ conc = NoConc
    /\ dispatch = NoDispatch
    /\ \E admin_ids \in StringsUpTo(AdminIdTexts, MaxAdminIds), token \in BOOLEAN :
         startup = [pc |-> "init_db", admin_ids |-> admin_ids, token |-> token,
                    inserted |-> {}, aborted |-> FALSE, raised |-> "",
                    handlers |-> <<>>, polling |-> FALSE]

\* init_db(): a failed connection is logged by the except clause, then the finally
\* clause reads the unbound conn and init_db ends by an UnboundLocalError, which
\* main() does not catch; a CREATE TABLE that fails is logged in the loop; an
\* exception of check_and_update_db_structure is logged by the except clause
startup_init_db ==
    /\ prog = "startup"
    /\ startup.pc = "init_db"
    /\ \E db \in DbOutcomes, check \in {"ok", "connfail"} :
         startup' = IF ConnRaises(db)
                    THEN [startup EXCEPT !.pc = "raised", !.raised = "init_db"]
                    ELSE [startup EXCEPT !.pc = "token"]
    /\ UNCHANGED <<prog, main_vars, db_vars, last, norm, history, conc, dispatch>>

\* token = os.getenv('TELEGRAM_TOKEN'); if not token: raise ValueError
startup_token ==
    /\ prog = "startup"
    /\ startup.pc = "token"
    /\ startup' = IF startup.token THEN [startup EXCEPT !.pc = "connect"]
                  ELSE [startup EXCEPT !.pc = "raised", !.raised = "token"]
    /\ UNCHANGED <<prog, main_vars, db_vars, last, norm, history, conc, dispatch>>

\* conn = get_db_connection() of main(): when it fails the except clause logs and the
\* finally clause reads the unbound conn
startup_connect ==
    /\ prog = "startup"
    /\ startup.pc = "connect"
    /\ \E db \in {"ok", "connfail"} :
         startup' = IF ConnRaises(db)
                    THEN [startup EXCEPT !.pc = "raised", !.raised = "bot_admins"]
                    ELSE [startup EXCEPT !.pc = "admins"]
    /\ UNCHANGED <<prog, main_vars, db_vars, last, norm, history, conc, dispatch>>

\* one turn of the loop over admin_ids: an id that is not a number is skipped; the
\* INSERT runs with or without the info of get_chat; an INSERT that fails is logged
\* and aborts the transaction, so that the later ones fail too
startup_admin ==
    /\ prog = "startup"
    /\ startup.pc = "admins"
    /\ startup.admin_ids # <<>>
    /\ \E get_chat \in BOOLEAN, db \in {"ok", "queryfail"} :
         LET admin_id == Strip(Head(startup.admin_ids))
             failed == db = "queryfail" \/ startup.aborted
         IN  startup' =
                IF ~IsDigitStr(admin_id)
                THEN [startup EXCEPT !.admin_ids = Tail(@)]
                ELSE [startup EXCEPT
                        !.admin_ids = Tail(@),
                        !.aborted = failed,
                        !.inserted = IF failed THEN @ ELSE @ \cup {IntVal(admin_id)}]
    /\ UNCHANGED <<prog, main_vars, db_vars, last, norm, history, conc, dispatch>>

\* conn.commit(): the rows are in bot_admins unless the transaction was aborted or the
\* commit fails, which the except clause logs
startup_commit ==
    /\ prog = "startup"
    /\ startup.pc = "admins"
    /\ startup.admin_ids = <<>>
    /\ \E db \in {"ok", "queryfail"} :
         /\ bot_admins' = IF db = "ok" /\ ~startup.aborted
                          THEN bot_admins \cup startup.inserted ELSE bot_admins
         /\ startup' = [startup EXCEPT !.pc = "register"]
    /\ UNCHANGED <<prog, group_admins, verified_users, join, db_vars, last, norm, history,
                   conc, dispatch>>

\* the add_handler calls, add_error_handler and updater.start_polling()
startup_register ==
    /\ prog = "startup"
    /\ startup.pc = "register"
    /\ startup' = [startup EXCEPT !.pc = "polling", !.handlers = Handlers,
                                  !.polling = TRUE]
    /\ UNCHANGED <<prog, main_vars, db_vars, last, norm, history, conc, dispatch>>

StartupNext ==
    \/ startup_init_db
    \/ startup_token
    \/ startup_connect
    \/ startup_admin
    \/ startup_commit
    \/ startup_register

SpecStartup == InitStartup /\ [][StartupNext]_vars

\* database.py alone
InitDatabase == Init /\ prog # "main"

SpecDatabase == InitDatabase /\ [][DatabaseNext]_vars

-----------------------------------------------------------------------------
(* The normalization of a username on its own: applied to a username, then, as  *)
(* when a stored key comes back as the argument of a lookup, to its own result. *)

NormChars == {"@", "F", "f", "o", " "}

InitNorm ==
    /\ prog = "normalize"
    /\ bot_admins = BOT_ADMINS
    /\ group_admins = EmptyBag
    /\ verified_users = EmptyBag
    /\ join = NoJoin
    /\ db_verified_users = <<>>
    /\ groups = <<>>
    /\ source_channel = {}
    /\ last = NoLast
    /\ history = {}
    /\ conc = NoConc
    /\ dispatch = NoDispatch
    /\ startup = NoStartup
    /\ \E username \in StringsUpTo(NormChars, MaxNormLen) :
         norm = [pc |-> "arg", arg |-> username, key |-> <<>>, username |-> username]

\* the first lines of add_verified_user, remove_verified_user and is_user_verified
normalize_arg ==
    /\ prog = "normalize"
    /\ norm.pc = "arg"
    /\ norm' = [norm EXCEPT !.pc = "key", !.key = NormalizeUsername(norm.username),
                            !.username = NormalizeUsername(norm.username)]
    /\ UNCHANGED <<prog, main_vars, db_vars, last, history, conc, dispatch, startup>>

\* the same lines, given the key
normalize_key ==
    /\ prog = "normalize"
    /\ norm.pc = "key"
    /\ norm' = [norm EXCEPT !.pc = "again", !.username = NormalizeUsername(norm.username)]
    /\ UNCHANGED <<prog, main_vars, db_vars, last, history, conc, dispatch, startup>>

NormNext ==
    \/ normalize_arg
    \/ normalize_key

SpecNorm == InitNorm /\ [][NormNext]_vars

-----------------------------------------------------------------------------
(* Properties *)

\* s has no element twice
NoDuplicates(s) == \A i, j \in 1..Len(s) : s[i] = s[j] => i = j

GrantCalls == {"promote_chat_member", "set_chat_administrator_custom_title"}

\* a permission-grant call of the log failed
GrantFailed(log) == \E i \in 1..Len(log) : log[i].call \in GrantCalls /\ ~log[i].ok

\* the log has the call (call, arg)
Issued(log, call, arg) == \E i \in 1..Len(log) : log[i].call = call /\ log[i].arg = arg

\* C1: a joining member found both as administrator of the event's group and as
\* approved verified user gets the full-permission grant only: the no-permission
\* grant and the title 'Verificada' are not issued for that member.
C1_JoinPriority ==
    (last.op = "handle_new_member" /\ last.is_group_admin /\ last.is_verified)
        => /\ Issued(last.log, "promote_chat_member", "all")
           /\ ~Issued(last.log, "promote_chat_member", "none")
           /\ ~Issued(last.log, "set_chat_administrator_custom_title", "Verificada")

\* C2: when promote_chat_member or set_chat_administrator_custom_title fails for a
\* joining member, the handler does not raise and replies nothing, no call follows
\* the failed one in its block, no grant call is made twice for the member, and
\* group_admins and verified_users are as before.
C2_GrantFailureOnlyLogged ==
    [][ (last'.op = "handle_new_member" /\ GrantFailed(last'.log))
          => /\ ~last'.raised
             /\ last'.replies = <<>>
             /\ \A i \in 1..Len(last'.log) :
                  (last'.log[i].call \in GrantCalls /\ ~last'.log[i].ok)
                      => \/ i = Len(last'.log)
                         \/ last'.log[i + 1].call = "select_verified_users"
             /\ \A i, j \in 1..Len(last'.log) :
                  (/\ last'.log[i].call \in GrantCalls
                   /\ last'.log[i].call = last'.log[j].call
                   /\ last'.log[i].arg = last'.log[j].arg) => i = j
             /\ group_admins' = group_admins
             /\ verified_users' = verified_users ]_vars

\* a grant call failed for a member who has a role entry
C2_Witness ==
    /\ last.op = "handle_new_member"
    /\ GrantFailed(last.log)
    /\ BagCardinality(group_admins) + BagCardinality(verified_users) > 0

WriteCommands ==
    {"add_verified_command", "remove_verified_command",
     "add_group_admin_command", "remove_group_admin_command"}

\* C3: group_admins and verified_users change only in a write command whose invoker
\* is_bot_admin found in bot_admins; a write command of an invoker for whom
\* is_bot_admin is false replies permission denied and changes neither table; join
\* events, keyword messages and button callbacks change neither table.
C3_OnlyAdminCommandsMutate ==
    [][ /\ (group_admins' # group_admins \/ verified_users' # verified_users)
            => /\ last'.op \in WriteCommands
               /\ last'.auth = "true"
               /\ last'.who \in bot_admins
        /\ (last'.op \in WriteCommands /\ last'.auth = "false")
            => /\ last'.replies = <<"denied">>
               /\ group_admins' = group_admins
               /\ verified_users' = verified_users
        /\ (last'.op \in {"join_event", "handle_new_member", "handle_new_member_return",
                          "handle_verification_keywords", "button_handler"})
            => /\ group_admins' = group_admins
               /\ verified_users' = verified_users ]_vars

\* a user who is no bot administrator asked for a removal while the store has entries
C3_Witness ==
    /\ last.op = "remove_verified_command"
    /\ last.who \notin bot_admins
    /\ last.auth = "false"
    /\ last.replies = <<"denied">>
    /\ BagCardinality(verified_users) > 0
    /\ BagCardinality(group_admins) > 0

\* C4: an add whose statement ran returns true exactly when no row with the key was
\* there before; a second /addverified or /addgroupadmin of the same identity replies
\* 'already present'.
C4_AddReturnsTrueIffNewRow ==
    /\ (last.op \in {"add_verified_command", "add_group_admin_command"} /\ last.db = "ok")
        => /\ last.ret <=> ~last.existed
           /\ last.existed => last.replies = <<"already">>
    /\ (last.op = "db_add_verified_user" /\ last.db = "ok")
        => (last.ret <=> ~last.existed)

\* C5: verified_users of main.py has at most one row per user_id, group_admins at
\* most one row per (user_id, chat_id), verified_users of database.py at most one
\* row per normalized username.
C5_OneRowPerKey ==
    /\ \A r \in BagToSet(verified_users) :
         BagCardinality(VerifiedRows(verified_users, r.user_id)) = 1
    /\ \A r \in BagToSet(group_admins) :
         BagCardinality(GroupAdminRows(group_admins, r.user_id, r.chat_id)) = 1
    /\ \A i, j \in 1..Len(db_verified_users) :
         db_verified_users[i].username = db_verified_users[j].username => i = j

\* an identity was added as administrator of a group it already administers
C5_Witness ==
    /\ last.op = "add_group_admin_command"
    /\ last.db = "ok"
    /\ last.existed
    /\ BagCardinality(group_admins) >= 2

\* the rows of bag t that satisfy keep, with their copies
BagFilter(t, keep(_)) == [r \in {x \in BagToSet(t) : keep(x)} |-> t[r]]

\* bags a and b hold the same rows the same number of times
SameBag(a, b) == BagToSet(a) = BagToSet(b) /\ \A r \in BagToSet(a) : a[r] = b[r]

\* C6: a remove whose statement ran returns true exactly when a row with the key was
\* there, and the table is afterwards the table before without the rows of that key;
\* when no such row was there it returns false, does not raise and changes nothing.
C6_RemoveReturnsWhetherRowExisted ==
    [][ /\ (last'.op = "remove_verified_command" /\ last'.db = "ok")
            => /\ ~last'.raised
               /\ last'.ret = last'.existed
               /\ last'.existed =
                    (\E r \in BagToSet(verified_users) : r.user_id = last'.user_id)
               /\ SameBag(verified_users',
                          BagFilter(verified_users,
                                    LAMBDA r : r.user_id # last'.user_id))
               /\ group_admins' = group_admins
        /\ (last'.op = "remove_group_admin_command" /\ last'.db = "ok")
            => /\ ~last'.raised
               /\ last'.ret = last'.existed
               /\ last'.existed =
                    (\E r \in BagToSet(group_admins) :
                        r.user_id = last'.user_id /\ r.chat_id = last'.chat_id)
               /\ SameBag(group_admins',
                          BagFilter(group_admins,
                                    LAMBDA r : ~(r.user_id = last'.user_id
                                                 /\ r.chat_id = last'.chat_id)))
               /\ verified_users' = verified_users
        /\ (last'.op = "db_remove_verified_user" /\ last'.db = "ok")
            => /\ last'.ret = last'.existed
               /\ last'.existed =
                    (\E i \in 1..Len(db_verified_users) :
                        db_verified_users[i].username = last'.key)
               /\ db_verified_users' =
                    SelectSeq(db_verified_users, LAMBDA r : r.username # last'.key)
        /\ (last'.op \in {"remove_verified_command", "remove_group_admin_command",
                          "db_remove_verified_user"}
            /\ last'.db = "ok" /\ ~last'.existed)
            => /\ ~last'.ret
               /\ UNCHANGED <<verified_users, group_admins, db_verified_users>> ]_vars

\* an administrator entry was removed and the entries of the other keys are still there
C6_Witness ==
    /\ last.op = "remove_group_admin_command"
    /\ last.db = "ok"
    /\ last.ret
    /\ BagCardinality(group_admins) >= 2

\* C7: source_channel holds zero or one row.
C7_SourceChannelSingleton == Cardinality(source_channel) <= 1

\* C8: get_all_groups has no chat id twice, and an add_group of a chat id that is
\* registered returns false and leaves the groups table as it was.
C8_GroupCatalogSetSemantics ==
    [][ /\ NoDuplicates(SelectAllGroups(groups'))
        /\ (last'.op = "get_all_groups" /\ last'.db = "ok") => NoDuplicates(last'.out)
        /\ (last'.op = "add_group" /\ last'.db = "ok" /\ last'.existed)
            => /\ ~last'.ret
               /\ groups' = groups ]_vars

\* a registered chat id was added again while two groups are registered
C8_Witness ==
    /\ last.op = "add_group"
    /\ last.db = "ok"
    /\ last.existed
    /\ ~last.ret
    /\ Len(groups) = 2

\* C9: normalizing a normalized username changes nothing, and "@Foo", "foo" and
\* "@foo" normalize to the one key "@foo".
C9_NormalizeIdempotent ==
    /\ norm.pc = "again" => norm.username = norm.key
    /\ (norm.pc # "arg" /\ norm.arg \in { <<"@", "F", "o", "o">>, <<"f", "o", "o">>,
                                          <<"@", "f", "o", "o">> })
        => norm.key = <<"@", "f", "o", "o">>

\* "@Foo" was normalized twice
C9_Witness ==
    /\ norm.pc = "again"
    /\ norm.arg = <<"@", "F", "o", "o">>
    /\ norm.key = <<"@", "f", "o", "o">>

\* username without one leading '@'
StripAt(username) == IF StartsWith(username, "@") THEN Tail(username) ELSE username

\* h1 and h2 differ only in letter case or a leading '@'
SameHandle(h1, h2) == Lower(StripAt(h1)) = Lower(StripAt(h2))

\* the same, once the surrounding whitespace is stripped from both
SameStrippedHandle(h1, h2) == SameHandle(Strip(h1), Strip(h2))

\* one step of the lookup claim of C10 for the handle relation same(_, _)
LookupInsensitive(same(_, _)) ==
        /\ (last'.op = "db_add_verified_user" /\ last'.ret)
            => \A h \in Handles :
                 same(last'.arg, h) => IsUserVerifiedIn(db_verified_users', h)
        /\ (last'.op = "db_remove_verified_user" /\ last'.db = "ok")
            => \A h \in Handles :
                 same(last'.arg, h) => ~IsUserVerifiedIn(db_verified_users', h)
        /\ \A h \in Handles :
             (IsUserVerifiedIn(db_verified_users, h)
              /\ ~IsUserVerifiedIn(db_verified_users', h))
                => /\ last'.op = "db_remove_verified_user"
                   /\ same(last'.arg, h)

-----------------------------------------------------------------------------

AdminCommands ==
    WriteCommands \cup {"list_verified_command", "list_group_admins_command"}

\* C11: every administrative command ends with exactly one reply to its invoker, a
\* reply of error_handler included, whatever is_bot_admin answers, whatever the
\* arguments are and whether each store step succeeds or fails.
C11_ExactlyOneReply ==
    last.op \in AdminCommands => Len(last.replies) = 1

\* the replies that tell the invoker the command failed
FailureNotices == {"error", "list_error"}

\* C12: when the store call of an add or remove command fails by a storage error, the
\* reply is a failure notice, never 'added'/'removed' nor 'already in the list'/'was
\* not in the list', and the table is left as it was.
C12_StorageErrorReply ==
    [][ (last'.op \in WriteCommands /\ last'.db \in {"connfail", "queryfail"})
          => /\ Len(last'.replies) >= 1
             /\ \A i \in 1..Len(last'.replies) : last'.replies[i] \in FailureNotices
             /\ group_admins' = group_admins
             /\ verified_users' = verified_users ]_vars

RoleCalls ==
    {"promote_chat_member", "set_chat_administrator_custom_title", "send_message"}

\* C13: for a joining member with no group_admins row for the event's group and no
\* approved verified_users row, handle_new_member calls neither promote_chat_member
\* nor set_chat_administrator_custom_title nor send_message.
C13_NoAction ==
    (/\ last.op = "handle_new_member"
     /\ ~\E r \in BagToSet(group_admins) :
            r.user_id = last.user_id /\ r.chat_id = last.chat_id
     /\ ~\E r \in BagToSet(verified_users) :
            r.user_id = last.user_id /\ r.status = "approved")
        => \A i \in 1..Len(last.log) : last.log[i].call \notin RoleCalls

\* a member who administers another group only joined, both lookups ran, and the
\* other identity is verified
C13_Witness ==
    /\ last.op = "handle_new_member"
    /\ ~last.raised
    /\ last.log = <<Call("select_group_admins", "", TRUE),
                    Call("select_verified_users", "", TRUE)>>
    /\ \E r \in BagToSet(group_admins) :
            r.user_id = last.user_id /\ r.chat_id # last.chat_id
    /\ ~\E r \in BagToSet(group_admins) :
            r.user_id = last.user_id /\ r.chat_id = last.chat_id
    /\ ~\E r \in BagToSet(verified_users) : r.user_id = last.user_id
    /\ BagCardinality(verified_users) > 0

\* the call (call, arg) of the log succeeded
Succeeded(log, call) == \E i \in 1..Len(log) : log[i].call = call /\ log[i].ok

C20_HandleFallback ==
    (last.op = "handle_new_member" /\ ~last.raised)
        => /\ (/\ last.log[1].ok
               /\ ~\E r \in BagToSet(group_admins) : r.user_id = last.user_id
               /\ \E r \in BagToSet(group_admins) :
                    r.username = last.arg /\ r.chat_id = last.chat_id)
                => Issued(last.log, "promote_chat_member", "all")
           /\ (/\ Succeeded(last.log, "select_verified_users")
               /\ ~\E r \in BagToSet(verified_users) : r.user_id = last.user_id
               /\ \E r \in BagToSet(verified_users) :
                    r.username = last.arg /\ r.status = "approved")
                => Issued(last.log, "promote_chat_member", "none")

\* the rows the two calls' key has in its table
ConcRows ==
    IF prog = "conc_groups"
    THEN Cardinality(RowsWith(groups, "chat_id", CleanChatId(ConcChatId)))
    ELSE BagCardinality(GroupAdminRows(group_admins, ConcUser, ConcChat))

\* C15: when two calls add the same key at the same time and neither meets a storage
\* error, the key never has more than one row, and once both have returned it has
\* exactly one row and exactly one of the calls has returned true.
C15_SameKeySerialized ==
    prog \in ConcProgs
        => /\ ConcRows <= 1
           /\ (\A p \in Procs : conc.pc[p] = "done" /\ conc.db[p] = "ok")
                => /\ ConcRows = 1
                   /\ Cardinality({p \in Procs : conc.ret[p]}) = 1

\* both calls of add_group have returned, they overlapped, and the second one is the
\* one that returned true
C15_Witness ==
    /\ prog = "conc_groups"
    /\ \A p \in Procs : conc.pc[p] = "done" /\ conc.db[p] = "ok"
    /\ conc.overlapped
    /\ conc.ret[2]
    /\ ~conc.ret[1]

\* the chat ids of the rows of catalog t
CatalogIds(t) == {t[i].chat_id : i \in 1..Len(t)}

C17_PruneSelectivity ==
    [][ prog = "dispatch"
          => /\ groups' # groups
                  => /\ Len(dispatch'.outcomes) = Len(dispatch.outcomes) + 1
                     /\ LET o == dispatch'.outcomes[Len(dispatch'.outcomes)]
                        IN  /\ o.kind = "PermanentFailure"
                            /\ groups' = SelectSeq(groups,
                                                   LAMBDA r : r.chat_id # o.destination)
             /\ (/\ Len(dispatch'.outcomes) = Len(dispatch.outcomes) + 1
                 /\ dispatch'.outcomes[Len(dispatch'.outcomes)].kind = "TransientFailure")
                  => groups' = groups ]_vars

\* a dispatch is over in which one destination timed out and is still in the catalog
\* and another failed permanently and is gone
C17_Witness ==
    /\ prog = "dispatch"
    /\ dispatch.pc = "done"
    /\ \E i, j \in 1..Len(dispatch.outcomes) :
         /\ dispatch.outcomes[i].kind = "TransientFailure"
         /\ dispatch.outcomes[i].destination \in CatalogIds(groups)
         /\ dispatch.outcomes[j].kind = "PermanentFailure"
         /\ dispatch.outcomes[j].destination \notin CatalogIds(groups)

\* the indices of the Delivered outcomes
DeliveredAt(outcomes) == {i \in 1..Len(outcomes) : outcomes[i].delivered}

RECURSIVE MembersAt(_, _)
\* the memberCount of the outcomes at the indices of I, summed
MembersAt(outcomes, I) ==
    IF I = {} THEN 0
    ELSE LET i == CHOOSE x \in I : TRUE
         IN  outcomes[i].memberCount + MembersAt(outcomes, I \ {i})

\* the report has the counts of the Delivered outcomes
ReachCounts(report, outcomes) ==
    /\ report.kind = "summary"
    /\ report.groupCount = Cardinality(DeliveredAt(outcomes))
    /\ report.totalMembers = MembersAt(outcomes, DeliveredAt(outcomes))

\* C18 as stated: for every outcome list, summarize gives groupCount, the number of
\* Delivered outcomes, and totalMembers, the sum of memberCount over the Delivered
\* outcomes only.
C18_ReachSummary ==
    (prog = "summarize" /\ dispatch.pc = "done")
        => ReachCounts(dispatch.report, dispatch.outcomes)

\* C18 amended: the same for every outcome list that is not empty; for the empty list
\* summarize gives the distinct result "no reachable destinations", without counts.
C18_ReachSummaryNonEmpty ==
    (prog = "summarize" /\ dispatch.pc = "done")
        => IF dispatch.outcomes = <<>>
           THEN dispatch.report = [kind |-> "no_reachable_destinations"]
           ELSE ReachCounts(dispatch.report, dispatch.outcomes)

\* [Delivered(50), Delivered(30), failed] was summarized as 2 groups and 80 members
C18_Witness ==
    /\ prog = "summarize"
    /\ dispatch.pc = "done"
    /\ Len(dispatch.outcomes) = 3
    /\ dispatch.outcomes[1] = [delivered |-> TRUE, memberCount |-> 50]
    /\ dispatch.outcomes[2] = [delivered |-> TRUE, memberCount |-> 30]
    /\ dispatch.outcomes[3] = [delivered |-> FALSE, memberCount |-> 30]
    /\ dispatch.report.groupCount = 2
    /\ dispatch.report.totalMembers = 80

\* C19: the listing of verified users has the most recently inserted entry first:
\* in database.py a new username goes to the front of what get_verified_users
\* returns, and in main.py the /listverified that follows the /addverified of a user
\* who was not in the list has that user first.
C19_ListNewestFirst ==
    [][ /\ (last'.op = "db_add_verified_user" /\ last'.db = "ok" /\ ~last'.existed)
            => SelectVerifiedUsers(db_verified_users')
                   = <<last'.key>> \o SelectVerifiedUsers(db_verified_users)
        /\ (last'.op = "db_get_verified_users" /\ last'.db = "ok")
            => last'.out = SelectVerifiedUsers(db_verified_users)
        /\ (/\ last.op = "add_verified_command" /\ last.db = "ok" /\ ~last.existed
            /\ last'.op = "list_verified_command" /\ last'.db = "ok")
            => last'.out[1] = last.user_id ]_vars

\* the platform calls handle_new_member makes
JoinCalls ==
    {Call("promote_chat_member", "all", TRUE), Call("promote_chat_member", "all", FALSE),
     Call("promote_chat_member", "none", TRUE), Call("promote_chat_member", "none", FALSE),
     Call("set_chat_administrator_custom_title", "Verificada", TRUE),
     Call("set_chat_administrator_custom_title", "Verificada", FALSE),
     Call("send_message", "admin", TRUE), Call("send_message", "admin", FALSE),
     Call("send_message", "verified", TRUE), Call("send_message", "verified", FALSE)}

\* the calls of the log that are not lookups of the store
PlatformCalls(log) == SelectSeq(log, LAMBDA c : c \in JoinCalls)

\* C21: in one turn of handle_new_member the admin welcome message is sent only right
\* after a promote_chat_member with every permission that succeeded, and the verified
\* welcome message only right after a title assignment that succeeded, itself right
\* after a no-permission promote_chat_member that succeeded; when a grant call fails
\* no welcome message of that role is sent; and the handler makes no other platform
\* call than these grants and welcomes, so that it undoes no grant it has made.
C21_WelcomeAfterGrant ==
    last.op = "handle_new_member"
        => /\ \A i \in 1..Len(last.log) :
                /\ (last.log[i].call = "send_message" /\ last.log[i].arg = "admin")
                     => /\ i > 1
                        /\ last.log[i - 1] = Call("promote_chat_member", "all", TRUE)
                /\ (last.log[i].call = "send_message" /\ last.log[i].arg = "verified")
                     => /\ i > 2
                        /\ last.log[i - 1] =
                               Call("set_chat_administrator_custom_title", "Verificada", TRUE)
                        /\ last.log[i - 2] = Call("promote_chat_member", "none", TRUE)
                /\ (last.log[i].call \in GrantCalls /\ ~last.log[i].ok)
                     => ~\E j \in 1..Len(last.log) :
                            /\ last.log[j].call = "send_message"
                            /\ last.log[j].arg =
                                   (IF last.log[i].arg = "all" THEN "admin" ELSE "verified")
                /\ last.log[i].call \notin {"select_group_admins", "select_verified_users"}
                     => last.log[i] \in JoinCalls
           /\ \A i, j \in 1..Len(last.log) :
                (last.log[i] = last.log[j] /\ last.log[i].call \in GrantCalls) => i = j

\* a member with both roles joined: the admin welcome followed the full grant, and the
\* title assignment failed after the no-permission grant, which ended the turn
C21_Witness ==
    /\ last.op = "handle_new_member"
    /\ PlatformCalls(last.log) =
            <<Call("promote_chat_member", "all", TRUE), Call("send_message", "admin", TRUE),
              Call("promote_chat_member", "none", TRUE),
              Call("set_chat_administrator_custom_title", "Verificada", FALSE)>>

\* C22: handle_new_member makes the full-permission grant for a member only when
\* group_admins has a row for exactly that member and the chat of the join event; a
\* row of the member for another chat causes no such grant, and the chat the grant is
\* made in is the chat of the event.
C22_AdminGrantScoped ==
    last.op = "handle_new_member"
        => /\ Issued(last.log, "promote_chat_member", "all")
                => \E r \in BagToSet(group_admins) :
                      r.user_id = last.user_id /\ r.chat_id = last.chat_id
           /\ (/\ \E r \in BagToSet(group_admins) : r.user_id = last.user_id
               /\ ~\E r \in BagToSet(group_admins) :
                      r.user_id = last.user_id /\ r.chat_id = last.chat_id)
                => ~Issued(last.log, "promote_chat_member", "all")
           /\ last.chat_id \in Chats
           /\ join.running => last.chat_id = join.chat_id

\* a member got the full grant in the chat of the event, and the next member of the
\* event is registered for the other chat only
C22_Witness ==
    /\ last.op = "handle_new_member"
    /\ Issued(last.log, "promote_chat_member", "all")
    /\ join.running
    /\ join.pending # <<>>
    /\ \E r \in BagToSet(group_admins) :
            r.user_id = Head(join.pending) /\ r.chat_id # join.chat_id
    /\ ~\E r \in BagToSet(group_admins) :
            r.user_id = Head(join.pending) /\ r.chat_id = join.chat_id

\* table t of verified_users has an approved row of the user
HasVerified(t, user_id) ==
    \E r \in BagToSet(t) : r.user_id = user_id /\ r.status = "approved"

\* table t of group_admins has a row of the user for the chat
HasGroupAdmin(t, user_id, chat_id) ==
    \E r \in BagToSet(t) : r.user_id = user_id /\ r.chat_id = chat_id

\* one step of the lifecycle claim of C23: an add that succeeds leaves the entry, a
\* remove that succeeds leaves none, an entry comes and goes by these commands on its
\* own key only, and a join of a member attempts the grant of a role exactly when the
\* entry is there (every_join), or exactly when it is there and the lookup of the role
\* succeeded
RoleLifecycle(every_join) ==
    /\ (last'.op = "add_verified_command" /\ last'.ret)
        => HasVerified(verified_users', last'.user_id)
    /\ (last'.op = "remove_verified_command" /\ last'.ret)
        => ~HasVerified(verified_users', last'.user_id)
    /\ (last'.op = "add_group_admin_command" /\ last'.ret)
        => HasGroupAdmin(group_admins', last'.user_id, last'.chat_id)
    /\ (last'.op = "remove_group_admin_command" /\ last'.ret)
        => ~HasGroupAdmin(group_admins', last'.user_id, last'.chat_id)
    /\ \A u \in Users :
         HasVerified(verified_users', u) # HasVerified(verified_users, u)
            => /\ last'.op \in {"add_verified_command", "remove_verified_command"}
               /\ last'.ret
               /\ last'.user_id = u
    /\ \A u \in Users, c \in Chats :
         HasGroupAdmin(group_admins', u, c) # HasGroupAdmin(group_admins, u, c)
            => /\ last'.op \in {"add_group_admin_command", "remove_group_admin_command"}
               /\ last'.ret
               /\ last'.user_id = u
               /\ last'.chat_id = c
    /\ last'.op = "handle_new_member"
        => /\ Issued(last'.log, "promote_chat_member", "none")
                => HasVerified(verified_users, last'.user_id)
           /\ (/\ HasVerified(verified_users, last'.user_id)
               /\ every_join \/ Succeeded(last'.log, "select_verified_users"))
                => Issued(last'.log, "promote_chat_member", "none")
           /\ Issued(last'.log, "promote_chat_member", "all")
                => HasGroupAdmin(group_admins, last'.user_id, last'.chat_id)
           /\ (/\ HasGroupAdmin(group_admins, last'.user_id, last'.chat_id)
               /\ every_join \/ Succeeded(last'.log, "select_group_admins"))
                => Issued(last'.log, "promote_chat_member", "all")

C24_MembersIndependent ==
    [][ (last'.op = "handle_new_member" /\ Len(join.pending) > 1)
          => /\ join'.running
             /\ join'.pending = Tail(join.pending) ]_vars

\* C25: is_bot_admin never raises: in every administrative command it answers true or
\* false, and an invoker for whom it answers false, as it does when the connection
\* or the query fails, gets the one reply 'permission denied'.
C25_AuthFailsClosed ==
    last.op \in AdminCommands
        => /\ last.auth \in {"true", "false"}
           /\ last.auth = "false" => (~last.raised /\ last.replies = <<"denied">>)

\* C26: main() does not end by an exception of init_db or of the configuration of
\* the bot administrators: whatever the connections and the statements of the two
\* do, main() ends only for a missing token, and otherwise goes on to register the
\* handlers and to start polling.
C26_StartupTolerant ==
    prog = "startup"
        => /\ startup.pc = "raised" => startup.raised = "token"
           /\ startup.pc = "polling" => (startup.polling /\ startup.handlers = Handlers)

DbMutators ==
    {"db_add_verified_user", "db_remove_verified_user", "add_group", "remove_group",
     "set_source_channel"}

DbReaders ==
    {"db_is_user_verified", "db_get_verified_users", "get_all_groups",
     "is_group_registered", "get_source_channel"}

\* C27: a call of a database.py function whose connection or statement fails does not
\* raise; a mutator returns false and leaves the three tables as they were; a reader
\* returns false, the empty list or None.
C27_StoreNeverRaises ==
    [][ (last'.op \in DbMutators \cup DbReaders /\ last'.db \in {"connfail", "queryfail"})
          => /\ ~last'.raised
             /\ ~last'.ret
             /\ last'.out = <<>>
             /\ UNCHANGED <<db_verified_users, groups, source_channel>> ]_vars

\* the removal of a registered group failed while two groups are registered
C27_Witness ==
    /\ last.op = "remove_group"
    /\ last.db = "connfail"
    /\ last.existed
    /\ ~last.ret
    /\ Len(groups) = 2

\* C28: right after add_group(c) has registered chat id c, a remove_group(c2) of
\* another chat id c2 leaves the entry of c in the catalog, and when c is the only
\* group an is_group_registered(c2) of another chat id c2 is false (chat ids are
\* integers in text, such as "-1" and "1").
C28_DistinctChatIds ==
    [][ (/\ last.op = "add_group" /\ last.ret
         /\ ~IntRaises(last.arg) /\ ~IntRaises(last'.arg)
         /\ IntVal(last'.arg) # IntVal(last.arg))
          => /\ last'.op = "remove_group" => RowsWith(groups', "chat_id", last.key) # {}
             /\ (last'.op = "is_group_registered" /\ Len(groups) = 1) => ~last'.ret ]_vars

\* C29: a get_source_channel whose query succeeds, called right after a
\* set_source_channel(c) that returned true, returns c, whatever channel ids were set
\* before.
C29_SourceChannelReadBack ==
    [][ (/\ last.op = "set_source_channel" /\ last.ret
         /\ last'.op = "get_source_channel" /\ last'.db = "ok")
          => last'.out = <<last.key>> ]_vars

\* s is an integer in text: digits, with or without a sign in front
IntegerText(s) ==
    \/ Len(s) >= 1 /\ \A i \in 1..Len(s) : s[i] \in Digits
    \/ Len(s) >= 2 /\ s[1] \in {"-", "+"} /\ \A i \in 2..Len(s) : s[i] \in Digits

\* C30: an /addgroupadmin or /removegroupadmin of a bot administrator whose group id
\* is not an integer in text ends with the one reply 'the group id must be a number',
\* whether or not the user is identified, and leaves group_admins and verified_users
\* as they were.
C30_GroupIdMustBeNumber ==
    [][ (/\ last'.op \in {"add_group_admin_command", "remove_group_admin_command"}
         /\ last'.arg # <<>>
         /\ ~IntegerText(last'.arg))
          => /\ last'.replies = <<"chat_id_not_number">>
             /\ ~last'.raised
             /\ group_admins' = group_admins
             /\ verified_users' = verified_users ]_vars

\* '/removegroupadmin <user> @b' was rejected while group_admins has rows
C30_Witness ==
    /\ last.op = "remove_group_admin_command"
    /\ last.arg = <<"@", "b">>
    /\ last.replies = <<"chat_id_not_number">>
    /\ BagCardinality(group_admins) > 0

\* s is not empty and has letters and digits only
AlphanumericText(s) == s # <<>> /\ \A i \in 1..Len(s) : s[i] \in Letters \cup Digits

\* C31: an add_verified_user of database.py whose username, once normalized, has
\* after its '@' nothing or anything but letters and digits returns false without
\* opening a connection and without raising, and leaves verified_users as it was.
C31_ValidateBeforeWrite ==
    [][ (/\ last'.op = "db_add_verified_user"
         /\ ~AlphanumericText(Tail(last'.key)))
          => /\ ~last'.ret
             /\ ~last'.raised
             /\ last'.db = "none"
             /\ db_verified_users' = db_verified_users ]_vars

\* "f@" was rejected without a connection while a username is stored
C31_Witness ==
    /\ last.op = "db_add_verified_user"
    /\ last.arg = <<"f", "@">>
    /\ last.key = <<"@", "f", "@">>
    /\ ~last.ret
    /\ last.db = "none"
    /\ Len(db_verified_users) > 0

====
